---- MODULE Spec2Model ----
(***************************************************************************)
(* Qubit tapering, symmetry generation (pennylane/hf/tapering.py).         *)
(*                                                                         *)
(* generate_symmetries runs the pipeline                                   *)
(*   _binary_matrix -> _reduced_row_echelon -> remove all-zero rows        *)
(*   -> _kernel -> generate_taus -> generate_paulis                        *)
(* on exact 0/1 integer matrices.  A matrix is a sequence of rows, a row a *)
(* sequence of bits.  numpy indexes from 0 and sequences from 1: wire w    *)
(* and column c of the source are position w + 1 and c + 1 here, and the   *)
(* wires kept inside terms, generators and Pauli-X operators are the       *)
(* source's own 0-based wires.                                             *)
(***************************************************************************)
EXTENDS Integers, Sequences, FiniteSets, TLC

VARIABLES
    pc,                      \* position in generate_symmetries
    num_qubits,              \* argument num_qubits
    terms,                   \* qubit_op.ops, the Pauli terms of the Hamiltonian
    binary_matrix,           \* line 260
    rref_binary_matrix,      \* line 263
    rref_again,              \* _reduced_row_echelon applied to its own output
    rref_binary_matrix_red,  \* lines 264-266
    nullspace,               \* line 269
    generators,              \* line 272
    pauli_x                  \* line 275

vars == <<pc, num_qubits, terms, binary_matrix, rref_binary_matrix, rref_again,
          rref_binary_matrix_red, nullspace, generators, pauli_x>>

\* Bounds of the model: qubit counts 1..MaxQubits, Hamiltonians of 1..MaxTerms terms.
MaxQubits == 2
MaxTerms == 2

Bit == {0, 1}

Min(a, b) == IF a <= b THEN a ELSE b

-----------------------------------------------------------------------------
(* Pauli terms.  A term carries the operator names and the wires they act  *)
(* on, in the same order (term.name, term.wires).  An operator on a single *)
(* wire carries its name as a string; a tensor product carries the list of *)
(* its factors' names.                                                     *)

PauliNames == {"Identity", "PauliX", "PauliY", "PauliZ"}

\* The names of a term's factors, one per wire.
FactorNames(term) == IF Len(term.wires) = 1 THEN <<term.name>> ELSE term.name

\* The label a term carries on wire q (Identity where it names no factor).
LabelAt(term, q) ==
    LET names == FactorNames(term)
    IN IF \E k \in 1..Len(term.wires) : term.wires[k] = q /\ names[k] # "Identity"
       THEN names[CHOOSE k \in 1..Len(term.wires) :
                      term.wires[k] = q /\ names[k] # "Identity"]
       ELSE "Identity"

\* The factors of a Pauli word, identities dropped, in ascending wire order.
RECURSIVE FactorsFrom(_, _, _)
FactorsFrom(word, q, n) ==
    IF q >= n THEN <<>>
    ELSE IF word[q] = "Identity" THEN FactorsFrom(word, q + 1, n)
         ELSE <<q>> \o FactorsFrom(word, q + 1, n)

\* The operator built from a word (one label per wire 0..n-1): the tensor
\* product of its non-identity factors, or Identity(0) when there is none.
PauliWord(word, n) ==
    LET ws == FactorsFrom(word, 0, n)
    IN IF Len(ws) = 0 THEN [name |-> "Identity", wires |-> <<0>>]
       ELSE IF Len(ws) = 1 THEN [name |-> word[ws[1]], wires |-> ws]
       ELSE [name |-> [k \in 1..Len(ws) |-> word[ws[k]]], wires |-> ws]

\* Every Pauli term on n qubits with wires in [0, n).
TermsOn(n) == {PauliWord(word, n) : word \in [0..(n - 1) -> PauliNames]}

\* Two Pauli terms commute iff they carry different non-identity labels on
\* an even number of qubits.
Clashes(t, g, n) ==
    {q \in 0..(n - 1) : /\ LabelAt(t, q) # "Identity"
                        /\ LabelAt(g, q) # "Identity"
                        /\ LabelAt(t, q) # LabelAt(g, q)}

Commute(t, g, n) == Cardinality(Clashes(t, g, n)) % 2 = 0

-----------------------------------------------------------------------------
(* _binary_matrix, lines 46-57 *)

\* Lines 48-50: the name of a term on a single wire is wrapped in a list.
Ops(term) == IF Len(term.wires) = 1 THEN <<term.name>> ELSE term.name

\* TermBit with "PauliY" missing from the list of line 54.
TermBitYOnlyX(term, c, n) ==
    LET ops == Ops(term)
    IN IF \E k \in 1..Min(Len(ops), Len(term.wires)) :
              \/ ops[k] \in {"PauliX", "PauliY"} /\ term.wires[k] + n = c
              \/ ops[k] \in {"PauliZ"} /\ term.wires[k] = c
       THEN 1 ELSE 0

\* TermBit with the offset num_qubits on the Z branch instead of the X branch.
TermBitHalvesSwapped(term, c, n) ==
    LET ops == Ops(term)
    IN IF \E k \in 1..Min(Len(ops), Len(term.wires)) :
              \/ ops[k] \in {"PauliX", "PauliY"} /\ term.wires[k] = c
              \/ ops[k] \in {"PauliZ", "PauliY"} /\ term.wires[k] + n = c
       THEN 1 ELSE 0

\* Lines 51-55 for one term and one column c (0-based): the bit is set by a
\* factor X or Y on wire c - num_qubits, or by a factor Z or Y on wire c.
TermBit(term, c, n) ==
    LET ops == Ops(term)
    IN IF \E k \in 1..Min(Len(ops), Len(term.wires)) :
              \/ ops[k] \in {"PauliX", "PauliY"} /\ term.wires[k] + n = c
              \/ ops[k] \in {"PauliZ", "PauliY"} /\ term.wires[k] = c
       THEN 1 ELSE 0

\* Lines 53 and 55 index a row of 2 * num_qubits entries: the assignment
\* raises IndexError when wire + num_qubits (X, Y) or wire (Z) is past its end.
BinaryMatrixRaises(ts, n) ==
    \E idx \in 1..Len(ts) :
        LET ops == Ops(ts[idx])
        IN \E k \in 1..Min(Len(ops), Len(ts[idx].wires)) :
               \/ ops[k] \in {"PauliX", "PauliY"} /\ ts[idx].wires[k] + n >= 2 * n
               \/ ops[k] \in {"PauliZ", "PauliY"} /\ ts[idx].wires[k] >= 2 * n

_binary_matrix(ts, n) ==
    [idx \in 1..Len(ts) |-> [c \in 1..(2 * n) |-> TermBit(ts[idx], c - 1, n)]]

-----------------------------------------------------------------------------
(* _reduced_row_echelon, lines 81-102 *)

NumRows(m) == Len(m)

\* ArgmaxRow without the search: the pivot row is always irow.
ArgmaxRowNoSearch(m, irow, icol) == irow

\* Line 87: irow + argmax(m[irow:, icol]); argmax is the first index of the
\* largest entry, so the first row at or below irow with a 1, else irow.
ArgmaxRow(m, irow, icol) ==
    IF \E r \in irow..NumRows(m) : m[r][icol] = 1
    THEN CHOOSE r \in irow..NumRows(m) :
             /\ m[r][icol] = 1
             /\ \A s \in irow..(r - 1) : m[s][icol] = 0
    ELSE irow

\* SwapRows without the copies: the second assignment reads the row the
\* first one has just overwritten, so both rows end up as row b.
SwapRowsAliased(m, a, b) ==
    [r \in 1..NumRows(m) |-> IF r = a \/ r = b THEN m[b] ELSE m[r]]

\* Lines 90-92.
SwapRows(m, a, b) ==
    [r \in 1..NumRows(m) |-> IF r = a THEN m[b] ELSE IF r = b THEN m[a] ELSE m[r]]

Xor(a, b) == (a + b) % 2

\* Eliminate acting only on the rows below irow.
EliminateBelowOnly(m, irow, icol) ==
    [r \in 1..NumRows(m) |->
        [c \in 1..Len(m[r]) |->
            IF c >= icol /\ r > irow
            THEN Xor(m[r][c], m[r][icol] * m[irow][c])
            ELSE m[r][c]]]

\* Lines 95-100: currcol is column icol with entry irow cleared; every row r
\* gets currcol[r] * pvtcols XORed into its columns icol.. .
Eliminate(m, irow, icol) ==
    [r \in 1..NumRows(m) |->
        [c \in 1..Len(m[r]) |->
            IF c >= icol /\ r # irow
            THEN Xor(m[r][c], m[r][icol] * m[irow][c])
            ELSE m[r][c]]]

\* One pass of the loop body, at the diagonal position (k, k).
ReduceStep(m, k) == Eliminate(SwapRows(m, ArgmaxRow(m, k, k), k), k, k)

\* Line 84: zip(range(shape[0]), range(shape[1])), the diagonal positions.
RECURSIVE ReduceFrom(_, _, _)
ReduceFrom(m, k, last) ==
    IF k > last THEN m ELSE ReduceFrom(ReduceStep(m, k), k + 1, last)

_reduced_row_echelon(m) ==
    IF NumRows(m) = 0 THEN m
    ELSE ReduceFrom(m, 1, Min(NumRows(m), Len(m[1])))

-----------------------------------------------------------------------------
(* _kernel, lines 129-143 *)

\* argmax of (row != 0): the position of the row's first nonzero entry, and
\* the first position when the row has none.
FirstNonzero(row) ==
    IF \E c \in 1..Len(row) : row[c] # 0
    THEN CHOOSE c \in 1..Len(row) : row[c] # 0 /\ \A d \in 1..(c - 1) : row[d] = 0
    ELSE 1

\* Line 130.
Pivots(m) == [r \in 1..NumRows(m) |-> FirstNonzero(m[r])]

PivotSet(m) == {FirstNonzero(m[r]) : r \in 1..NumRows(m)}

\* The elements of a set of integers in ascending order.
RECURSIVE Ascending(_)
Ascending(S) ==
    IF S = {} THEN <<>>
    ELSE LET lo == CHOOSE x \in S : \A y \in S : x <= y
         IN <<lo>> \o Ascending(S \ {lo})

\* The elements of a set of integers in descending order.
RECURSIVE Descending(_)
Descending(S) ==
    IF S = {} THEN <<>>
    ELSE LET hi == CHOOSE x \in S : \A y \in S : x >= y
         IN <<hi>> \o Descending(S \ {hi})

\* NonPivots with the free columns taken from the last to the first.
NonPivotsDescending(m) == Descending((1..Len(m[1])) \ PivotSet(m))

\* Line 131: setdiff1d returns the sorted columns that hold no pivot.
NonPivots(m) == Ascending((1..Len(m[1])) \ PivotSet(m))

\* Line 140 assigns through an index array: when two rows share a pivot
\* column the same row of null_vector is assigned twice, and numpy leaves
\* open which assignment stays.  A winner function names, for each pivot
\* column, the row whose assignment stays.
Winners(m) ==
    LET pivots == Pivots(m)
        cols == PivotSet(m)
    IN {w \in [cols -> 1..NumRows(m)] : \A p \in cols : pivots[w[p]] = p}

\* NullVector without line 135: the free column is never seeded.
NullVectorNoSeed(m, w, pivots, free, j) ==
    [c \in 1..Len(m[1]) |->
        IF c \in pivots THEN (0 - m[w[c]][free[j]]) % 2 ELSE 0]

\* NullVector with line 139 indexing the columns by j instead of nonpivots[j].
NullVectorWrongColumn(m, w, pivots, free, j) ==
    [c \in 1..Len(m[1]) |->
        IF c \in pivots THEN (0 - m[w[c]][j]) % 2
        ELSE IF c = free[j] THEN 1
        ELSE 0]

\* Lines 134-142: column j of null_vector, returned as row j of nullspace;
\* pivots is the set of pivot columns and free the sorted non-pivot columns.
\* Line 135 seeds a 1 at the j-th free column; line 140 then overwrites the
\* pivot positions with -m[row, free column] % 2.
NullVector(m, w, pivots, free, j) ==
    [c \in 1..Len(m[1]) |->
        IF c \in pivots THEN (0 - m[w[c]][free[j]]) % 2
        ELSE IF c = free[j] THEN 1
        ELSE 0]

\* Line 131 reads binary_matrix[0]: a matrix without rows raises IndexError.
KernelRaises(m) == NumRows(m) = 0

_kernel(m, w) ==
    LET pivots == PivotSet(m)
        free == NonPivots(m)
    IN [j \in 1..Len(free) |-> NullVector(m, w, pivots, free, j)]

-----------------------------------------------------------------------------
(* generate_taus, lines 172-184 *)

\* pauli_map with the keys "10" and "01" exchanged.
pauli_map_zx(x, z) ==
    CASE x = 0 /\ z = 0 -> "Identity"
      [] x = 1 /\ z = 0 -> "PauliZ"
      [] x = 1 /\ z = 1 -> "PauliY"
      [] x = 0 /\ z = 1 -> "PauliX"

\* Line 173, keyed by f"{x}{z}".
pauli_map(x, z) ==
    CASE x = 0 /\ z = 0 -> "Identity"
      [] x = 1 /\ z = 0 -> "PauliX"
      [] x = 1 /\ z = 1 -> "PauliY"
      [] x = 0 /\ z = 1 -> "PauliZ"

\* Lines 176-179: x from null_vector[:num_qubits], z from null_vector[num_qubits:].
Tau(null_vector, n) ==
    PauliWord([idx \in 0..(n - 1) |->
                  pauli_map(null_vector[idx + 1], null_vector[n + idx + 1])], n)

generate_taus(ns, n) ==
    [j \in 1..Len(ns) |-> [coeffs |-> <<1>>, ops |-> <<Tau(ns[j], n)>>]]

-----------------------------------------------------------------------------
(* generate_paulis, lines 210-225 *)

\* FirstUniqueCol without the comparison of bmatrest against zeros.
FirstOwnCol(bmat, row, n) ==
    IF \E col \in 1..n : bmat[row][col] = 1
    THEN CHOOSE col \in 1..n :
             bmat[row][col] = 1 /\ \A d \in 1..(col - 1) : bmat[row][d] = 0
    ELSE -1

\* Lines 217-223: the first column of the first half of bmat that is 1 in
\* this row and 0 in every other row; -1 stands for "the loop found none".
FirstUniqueCol(bmat, row, n) ==
    LET ok(col) == /\ bmat[row][col] = 1
                   /\ \A r \in 1..NumRows(bmat) : r # row => bmat[r][col] = 0
    IN IF \E col \in 1..n : ok(col)
       THEN CHOOSE col \in 1..n : ok(col) /\ \A d \in 1..(col - 1) : ~ok(d)
       ELSE -1

\* Lines 213-225: one PauliX(col) appended per row that has such a column;
\* a row without one appends nothing.
RECURSIVE SigmaFrom(_, _, _)
SigmaFrom(bmat, row, n) ==
    IF row > NumRows(bmat) THEN <<>>
    ELSE LET col == FirstUniqueCol(bmat, row, n)
         IN (IF col = -1 THEN <<>> ELSE <<[name |-> "PauliX", wires |-> <<col - 1>>]>>)
            \o SigmaFrom(bmat, row + 1, n)

generate_paulis(gens, n) ==
    LET ops_generator == [g \in 1..Len(gens) |-> gens[g].ops[1]]
        bmat == _binary_matrix(ops_generator, n)
    IN SigmaFrom(bmat, 1, n)

-----------------------------------------------------------------------------
(* generate_symmetries, lines 260-277, one action per statement *)

Unset == <<>>

\* A Hamiltonian: 1..MaxTerms Pauli terms on 1..MaxQubits qubits.
Init ==
    /\ pc = "start"
    /\ num_qubits \in 1..MaxQubits
    /\ \E len \in 1..MaxTerms : terms \in [1..len -> TermsOn(num_qubits)]
    /\ binary_matrix = Unset
    /\ rref_binary_matrix = Unset
    /\ rref_again = Unset
    /\ rref_binary_matrix_red = Unset
    /\ nullspace = Unset
    /\ generators = Unset
    /\ pauli_x = Unset

\* Line 260.
BinaryMatrix ==
    /\ pc = "start"
    /\ ~BinaryMatrixRaises(terms, num_qubits)
    /\ binary_matrix' = _binary_matrix(terms, num_qubits)
    /\ pc' = "encoded"
    /\ UNCHANGED <<num_qubits, terms, rref_binary_matrix, rref_again,
                   rref_binary_matrix_red, nullspace, generators, pauli_x>>

\* Line 263.
ReducedRowEchelon ==
    /\ pc = "encoded"
    /\ rref_binary_matrix' = _reduced_row_echelon(binary_matrix)
    /\ pc' = "reduced"
    /\ UNCHANGED <<num_qubits, terms, binary_matrix, rref_again,
                   rref_binary_matrix_red, nullspace, generators, pauli_x>>

\* The reducer applied to its own output.
ReduceAgain ==
    /\ pc = "reduced"
    /\ rref_again' = _reduced_row_echelon(rref_binary_matrix)
    /\ pc' = "reduced_twice"
    /\ UNCHANGED <<num_qubits, terms, binary_matrix, rref_binary_matrix,
                   rref_binary_matrix_red, nullspace, generators, pauli_x>>

\* Lines 264-266: boolean-mask selection keeps the rows that are not all zero,
\* in order.
RemoveZeroRows ==
    /\ pc = "reduced"
    /\ rref_binary_matrix_red' =
           SelectSeq(rref_binary_matrix, LAMBDA row : \E c \in 1..Len(row) : row[c] # 0)
    /\ pc' = "stripped"
    /\ UNCHANGED <<num_qubits, terms, binary_matrix, rref_binary_matrix, rref_again,
                   nullspace, generators, pauli_x>>

\* Line 269.
Kernel ==
    /\ pc = "stripped"
    /\ ~KernelRaises(rref_binary_matrix_red)
    /\ \E w \in Winners(rref_binary_matrix_red) :
           nullspace' = _kernel(rref_binary_matrix_red, w)
    /\ pc' = "kernel"
    /\ UNCHANGED <<num_qubits, terms, binary_matrix, rref_binary_matrix, rref_again,
                   rref_binary_matrix_red, generators, pauli_x>>

\* Line 269 when every row was removed: the IndexError leaves generate_symmetries.
KernelError ==
    /\ pc = "stripped"
    /\ KernelRaises(rref_binary_matrix_red)
    /\ pc' = "IndexError"
    /\ UNCHANGED <<num_qubits, terms, binary_matrix, rref_binary_matrix, rref_again,
                   rref_binary_matrix_red, nullspace, generators, pauli_x>>

\* Line 272.
GenerateTaus ==
    /\ pc = "kernel"
    /\ generators' = generate_taus(nullspace, num_qubits)
    /\ pc' = "taus"
    /\ UNCHANGED <<num_qubits, terms, binary_matrix, rref_binary_matrix, rref_again,
                   rref_binary_matrix_red, nullspace, pauli_x>>

\* Lines 275-277.
GeneratePaulis ==
    /\ pc = "taus"
    /\ pauli_x' = generate_paulis(generators, num_qubits)
    /\ pc' = "done"
    /\ UNCHANGED <<num_qubits, terms, binary_matrix, rref_binary_matrix, rref_again,
                   rref_binary_matrix_red, nullspace, generators>>

Next ==
    \/ BinaryMatrix
    \/ ReducedRowEchelon
    \/ RemoveZeroRows
    \/ Kernel
    \/ KernelError
    \/ GenerateTaus
    \/ GeneratePaulis

Spec == Init /\ [][Next]_vars

\* The reducer applied twice to the encoding of a Hamiltonian.
NextTwice ==
    \/ BinaryMatrix
    \/ ReducedRowEchelon
    \/ ReduceAgain

SpecTwice == Init /\ [][NextTwice]_vars

-----------------------------------------------------------------------------
(* _kernel on its own, given matrices that are in reduced row echelon form *)

IsZeroRow(row) == \A c \in 1..Len(row) : row[c] = 0

\* No all-zero row, leading 1s strictly increasing down the rows, and each
\* leading 1 alone in its column.
GenuineRref(m) ==
    /\ \A r \in 1..NumRows(m) : ~IsZeroRow(m[r])
    /\ \A r \in 1..(NumRows(m) - 1) : FirstNonzero(m[r]) < FirstNonzero(m[r + 1])
    /\ \A r, s \in 1..NumRows(m) : r # s => m[s][FirstNonzero(m[r])] = 0

InitKernel ==
    /\ pc = "stripped"
    /\ num_qubits \in 1..MaxQubits
    /\ \E rows \in 1..MaxTerms :
           /\ rref_binary_matrix_red \in [1..rows -> [1..(2 * num_qubits) -> Bit]]
           /\ GenuineRref(rref_binary_matrix_red)
    /\ terms = Unset
    /\ binary_matrix = Unset
    /\ rref_binary_matrix = Unset
    /\ rref_again = Unset
    /\ nullspace = Unset
    /\ generators = Unset
    /\ pauli_x = Unset

NextKernel ==
    \/ Kernel
    \/ GenerateTaus
    \/ GeneratePaulis

SpecKernel == InitKernel /\ [][NextKernel]_vars

-----------------------------------------------------------------------------
(* GF(2) linear algebra used to state the properties *)

Dot(u, v) == Cardinality({c \in 1..Len(u) : u[c] = 1 /\ v[c] = 1}) % 2

\* The XOR of the rows of m picked by the index set S, as the set of
\* positions where it is 1.
XorOf(m, S) ==
    {c \in 1..Len(m[1]) : Cardinality({r \in S : m[r][c] = 1}) % 2 = 1}

\* The row space of m.
Span(m) == {XorOf(m, S) : S \in SUBSET (1..NumRows(m))}

RECURSIVE Log2(_)
Log2(k) == IF k <= 1 THEN 0 ELSE 1 + Log2(k \div 2)

\* The GF(2) rank of m: its row space has 2^rank elements.
Rank(m) == IF NumRows(m) = 0 THEN 0 ELSE Log2(Cardinality(Span(m)))

Tau_(g) == g.ops[1]

AfterKernel == pc \in {"kernel", "taus", "done"}

-----------------------------------------------------------------------------
(* Properties *)

\* C1: every generator returned by generate_symmetries commutes with every
\* term of the Hamiltonian.
GeneratorsCommuteWithHamiltonian ==
    pc \in {"taus", "done"} =>
        \A i \in 1..Len(terms) : \A j \in 1..Len(generators) :
            Commute(terms[i], Tau_(generators[j]), num_qubits)

\* C2: every vector _kernel returns for the zero-row-stripped reducer output
\* has dot product 0 mod 2 with every row of that matrix.
KernelVectorsInNullspace ==
    AfterKernel =>
        \A j \in 1..Len(nullspace) : \A r \in 1..Len(rref_binary_matrix_red) :
            Dot(nullspace[j], rref_binary_matrix_red[r]) = 0

\* C3: _kernel returns exactly 2N - rank vectors for the zero-row-stripped
\* reducer output of a binary matrix.
KernelCountIsRankDeficit ==
    AfterKernel => Len(nullspace) = 2 * num_qubits - Rank(binary_matrix)

\* C4: the i-th Pauli-X operator returned anticommutes with the i-th generator
\* and commutes with every other generator.
SigmaXAnticommutesWithOwnGeneratorOnly ==
    pc = "done" =>
        \A i \in 1..Len(pauli_x) :
            /\ i <= Len(generators)
            /\ ~Commute(pauli_x[i], Tau_(generators[i]), num_qubits)
            /\ \A j \in 1..Len(generators) :
                   j # i => Commute(pauli_x[i], Tau_(generators[j]), num_qubits)

\* C5: generate_paulis returns exactly one Pauli-X operator per generator; it
\* never returns a shorter list.
OneSigmaXPerGenerator ==
    pc = "done" => Len(pauli_x) = Len(generators)

\* C6: reducing the reducer's output again gives the same matrix.
ReductionIdempotent ==
    pc = "reduced_twice" => rref_again = rref_binary_matrix

\* C7: the first-nonzero columns _kernel computes on the zero-row-stripped
\* reducer output are strictly increasing.
PivotsStrictlyIncreasing ==
    pc \in {"stripped", "kernel", "taus", "done"} =>
        \A r \in 1..(Len(rref_binary_matrix_red) - 1) :
            Pivots(rref_binary_matrix_red)[r] < Pivots(rref_binary_matrix_red)[r + 1]

\* C8: in the reducer's output the column of a nonzero row's leading 1 is 0
\* in every other row.
PivotColumnsCleared ==
    pc \in {"reduced", "stripped", "kernel", "taus", "done"} =>
        \A r, s \in 1..Len(rref_binary_matrix) :
            (r # s /\ ~IsZeroRow(rref_binary_matrix[r]))
                => rref_binary_matrix[s][FirstNonzero(rref_binary_matrix[r])] = 0

\* C9: the vectors _kernel returns for the zero-row-stripped reducer output
\* are linearly independent over GF(2).
KernelVectorsIndependent ==
    pc = "kernel" => Rank(nullspace) = Len(nullspace)

\* C9 witness: _kernel returned at least two vectors, one of them with a
\* back-substituted 1 next to its seed.
KernelReturnedSeveralVectors ==
    /\ pc = "kernel"
    /\ Len(nullspace) >= 2
    /\ \E j \in 1..Len(nullspace) :
           Cardinality({c \in 1..Len(nullspace[j]) : nullspace[j][c] = 1}) >= 2

\* C10: for a matrix in reduced row echelon form without zero rows, _kernel
\* returns a basis of the right nullspace: 2N - R independent vectors, each
\* with dot product 0 against every row.
KernelOfRrefIsNullspaceBasis ==
    (pc = "kernel" /\ GenuineRref(rref_binary_matrix_red)) =>
        /\ Len(nullspace) = 2 * num_qubits - Len(rref_binary_matrix_red)
        /\ Rank(nullspace) = Len(nullspace)
        /\ \A j \in 1..Len(nullspace) : \A r \in 1..Len(rref_binary_matrix_red) :
               Dot(nullspace[j], rref_binary_matrix_red[r]) = 0

\* C10 witness: a reduced matrix of two or more rows whose kernel has a vector
\* with a back-substituted 1 in a pivot position.
KernelOfRrefBackSubstituted ==
    /\ pc = "kernel"
    /\ GenuineRref(rref_binary_matrix_red)
    /\ Len(rref_binary_matrix_red) >= 2
    /\ \E j \in 1..Len(nullspace) : \E p \in PivotSet(rref_binary_matrix_red) :
           nullspace[j][p] = 1

-----------------------------------------------------------------------------
(* _binary_matrix on its own *)

\* The tensor product that names every wire 0..n-1, identity factors kept.
FullWord(word, n) ==
    IF n = 1 THEN [name |-> word[0], wires |-> <<0>>]
    ELSE [name |-> [k \in 1..n |-> word[k - 1]], wires |-> [k \in 1..n |-> k - 1]]

\* Terms with wires in [0, n): with and without explicit identity factors.
ValidTerms(n) ==
    TermsOn(n) \cup {FullWord(word, n) : word \in [0..(n - 1) -> PauliNames]}

\* Terms that name a wire in [n, 2n]: alone, or next to a factor on wire 0.
StrayTerms(n) ==
    {[name |-> op, wires |-> <<w>>] : op \in PauliNames, w \in n..(2 * n)}
    \cup {[name |-> <<a, b>>, wires |-> <<0, w>>] :
              a \in PauliNames \ {"Identity"}, b \in PauliNames \ {"Identity"},
              w \in n..(2 * n)}

InitWith(TermSet) ==
    /\ pc = "start"
    /\ num_qubits \in 1..MaxQubits
    /\ \E len \in 1..MaxTerms : terms \in [1..len -> TermSet[num_qubits]]
    /\ binary_matrix = Unset
    /\ rref_binary_matrix = Unset
    /\ rref_again = Unset
    /\ rref_binary_matrix_red = Unset
    /\ nullspace = Unset
    /\ generators = Unset
    /\ pauli_x = Unset

InitEncode == InitWith([n \in 1..MaxQubits |-> ValidTerms(n)])

SpecEncode == InitEncode /\ [][BinaryMatrix]_vars

AnyTerms(n) == ValidTerms(n) \cup StrayTerms(n)

InitEncodeAny == InitWith([n \in 1..MaxQubits |-> AnyTerms(n)])

\* Line 53 or 55 raises: the IndexError leaves _binary_matrix.
BinaryMatrixError ==
    /\ pc = "start"
    /\ BinaryMatrixRaises(terms, num_qubits)
    /\ pc' = "IndexError"
    /\ UNCHANGED <<num_qubits, terms, binary_matrix, rref_binary_matrix, rref_again,
                   rref_binary_matrix_red, nullspace, generators, pauli_x>>

NextEncodeAny ==
    \/ BinaryMatrix
    \/ BinaryMatrixError

SpecEncodeAny == InitEncodeAny /\ [][NextEncodeAny]_vars

-----------------------------------------------------------------------------
(* Properties of _binary_matrix *)

ZLike == {"PauliZ", "PauliY"}
XLike == {"PauliX", "PauliY"}

\* C11: the encoding has one row of 2N bits per term; on wire w < N, entry w
\* is 1 exactly for a label Z or Y and entry N + w exactly for a label X or Y,
\* for single-wire operators and tensor products alike.
EncodingMatchesLabels ==
    pc = "encoded" =>
        /\ Len(binary_matrix) = Len(terms)
        /\ \A r \in 1..Len(terms) :
               /\ DOMAIN binary_matrix[r] = 1..(2 * num_qubits)
               /\ \A c \in 1..(2 * num_qubits) : binary_matrix[r][c] \in Bit
               /\ \A w \in 0..(num_qubits - 1) :
                      /\ binary_matrix[r][w + 1] = 1 <=> LabelAt(terms[r], w) \in ZLike
                      /\ binary_matrix[r][num_qubits + w + 1] = 1
                             <=> LabelAt(terms[r], w) \in XLike

\* C11 witness: a single-wire operator and a tensor product with an identity
\* factor have been encoded, both to nonzero rows.
EncodedSingleAndTensor ==
    /\ pc = "encoded"
    /\ \E r \in 1..Len(terms) :
           /\ Len(terms[r].wires) = 1
           /\ terms[r].name # "Identity"
           /\ ~IsZeroRow(binary_matrix[r])
    /\ \E r \in 1..Len(terms) :
           /\ Len(terms[r].wires) > 1
           /\ \E k \in 1..Len(terms[r].wires) : terms[r].name[k] = "Identity"
           /\ ~IsZeroRow(binary_matrix[r])

\* C12 as stated: the first N columns are the X-part, the last N the Z-part.
FirstHalfIsXPart ==
    pc = "encoded" =>
        \A r \in 1..Len(terms) : \A i \in 0..(num_qubits - 1) :
            /\ binary_matrix[r][i + 1] = 1 <=> LabelAt(terms[r], i) \in XLike
            /\ binary_matrix[r][num_qubits + i + 1] = 1 <=> LabelAt(terms[r], i) \in ZLike

ZPart(term, n) == [i \in 1..n |-> IF LabelAt(term, i - 1) \in ZLike THEN 1 ELSE 0]
XPart(term, n) == [i \in 1..n |-> IF LabelAt(term, i - 1) \in XLike THEN 1 ELSE 0]

\* C12 amended: each row is the Z-part of its term followed by the X-part.
RowIsZPartThenXPart ==
    pc = "encoded" =>
        \A r \in 1..Len(terms) :
            binary_matrix[r] = ZPart(terms[r], num_qubits) \o XPart(terms[r], num_qubits)

\* C12 witness: an encoded term whose Z-part and X-part differ.
EncodedTermWithDistinctParts ==
    /\ pc = "encoded"
    /\ \E r \in 1..Len(terms) :
           ZPart(terms[r], num_qubits) # XPart(terms[r], num_qubits)

\* A term names a wire outside [0, n) with a label X, Y or Z.
HasStrayWire(ts, n) ==
    \E r \in 1..Len(ts) : \E k \in 1..Len(ts[r].wires) :
        FactorNames(ts[r])[k] # "Identity" /\ ts[r].wires[k] >= n

\* C13: _binary_matrix never returns a matrix when a term has a label X, Y or
\* Z on a wire >= N.
StrayWireNeverEncoded ==
    pc = "encoded" => ~HasStrayWire(terms, num_qubits)

-----------------------------------------------------------------------------
(* generate_taus and generate_paulis on their own, given any 0/1 vectors *)

InitTaus ==
    /\ pc = "kernel"
    /\ num_qubits \in 1..MaxQubits
    /\ \E len \in 0..MaxTerms : nullspace \in [1..len -> [1..(2 * num_qubits) -> Bit]]
    /\ terms = Unset
    /\ binary_matrix = Unset
    /\ rref_binary_matrix = Unset
    /\ rref_again = Unset
    /\ rref_binary_matrix_red = Unset
    /\ generators = Unset
    /\ pauli_x = Unset

NextTaus ==
    \/ GenerateTaus
    \/ GeneratePaulis

SpecTaus == InitTaus /\ [][NextTaus]_vars

-----------------------------------------------------------------------------
(* Properties of generate_taus and generate_paulis *)

\* The label named by the pair (x, z).
LabelOfPair ==
    (<<0, 0>> :> "Identity") @@ (<<1, 0>> :> "PauliX")
        @@ (<<1, 1>> :> "PauliY") @@ (<<0, 1>> :> "PauliZ")

SwapHalves(v, n) == SubSeq(v, n + 1, 2 * n) \o SubSeq(v, 1, n)

\* C14: generate_taus returns one generator per vector, in order, with
\* coefficient 1 and on qubit idx the label of the pair (v[idx], v[N + idx]);
\* encoding the generator gives v with its two halves swapped.
TausFollowPairMap ==
    pc = "taus" =>
        /\ Len(generators) = Len(nullspace)
        /\ \A j \in 1..Len(nullspace) :
               /\ generators[j].coeffs = <<1>>
               /\ Len(generators[j].ops) = 1
               /\ \A idx \in 0..(num_qubits - 1) :
                      LabelAt(Tau_(generators[j]), idx)
                          = LabelOfPair[<<nullspace[j][idx + 1],
                                          nullspace[j][num_qubits + idx + 1]>>]
               /\ _binary_matrix(<<Tau_(generators[j])>>, num_qubits)[1]
                      = SwapHalves(nullspace[j], num_qubits)

\* C14 witness: a generator with a label Y next to a label X, built from a
\* vector whose halves differ.
TauBuiltFromMixedVector ==
    /\ pc = "taus"
    /\ \E j \in 1..Len(nullspace) :
           /\ SwapHalves(nullspace[j], num_qubits) # nullspace[j]
           /\ \E a, b \in 0..(num_qubits - 1) :
                  /\ LabelAt(Tau_(generators[j]), a) = "PauliX"
                  /\ LabelAt(Tau_(generators[j]), b) = "PauliY"

\* Qubit q carries Z or Y in generator g and in no other generator.
OwnQubit(g, q) ==
    /\ LabelAt(Tau_(generators[g]), q) \in ZLike
    /\ \A h \in 1..Len(generators) :
           h # g => LabelAt(Tau_(generators[h]), q) \notin ZLike

OwnQubits(g) == {q \in 0..(num_qubits - 1) : OwnQubit(g, q)}

\* The generators that have such a qubit, in generator order.
Emitting ==
    SelectSeq([g \in 1..Len(generators) |-> g], LAMBDA g : OwnQubits(g) # {})

\* C19: the operators generate_paulis returns are, in generator order, one
\* PauliX(q) for each generator that has a qubit with Z or Y where no other
\* generator has Z or Y, q being the smallest such qubit; that operator
\* anticommutes with its generator and commutes with every other one.
SigmaXOnSmallestOwnQubit ==
    pc = "done" =>
        /\ Len(pauli_x) = Len(Emitting)
        /\ \A i \in 1..Len(Emitting) :
               LET g == Emitting[i]
               IN /\ i <= Len(pauli_x)
                  /\ pauli_x[i].name = "PauliX"
                  /\ pauli_x[i].wires[1] \in OwnQubits(g)
                  /\ \A q \in OwnQubits(g) : pauli_x[i].wires[1] <= q
                  /\ ~Commute(pauli_x[i], Tau_(generators[g]), num_qubits)
                  /\ \A h \in 1..Len(generators) :
                         h # g => Commute(pauli_x[i], Tau_(generators[h]), num_qubits)

\* C19 witness: an operator was returned for a generator that has two
\* qualifying qubits, next to another generator.
SigmaXChosenAmongSeveral ==
    /\ pc = "done"
    /\ Len(generators) >= 2
    /\ Len(pauli_x) >= 1
    /\ \E g \in 1..Len(generators) : Cardinality(OwnQubits(g)) >= 2

-----------------------------------------------------------------------------
(* _kernel on its own, given any matrix without all-zero rows *)

InitKernelAny ==
    /\ pc = "stripped"
    /\ num_qubits \in 1..MaxQubits
    /\ \E rows \in 1..MaxTerms :
           /\ rref_binary_matrix_red \in [1..rows -> [1..(2 * num_qubits) -> Bit]]
           /\ \A r \in 1..rows : ~IsZeroRow(rref_binary_matrix_red[r])
    /\ terms = Unset
    /\ binary_matrix = Unset
    /\ rref_binary_matrix = Unset
    /\ rref_again = Unset
    /\ nullspace = Unset
    /\ generators = Unset
    /\ pauli_x = Unset

SpecKernelAny == InitKernelAny /\ [][Kernel]_vars

\* The columns in which no row of m has its leading 1.
FreeColumns(m) ==
    {c \in 1..Len(m[1]) :
        \A r \in 1..NumRows(m) : ~(m[r][c] = 1 /\ \A d \in 1..(c - 1) : m[r][d] = 0)}

\* The position of free column c among the free columns, counted from 1.
FreeIndex(m, c) == Cardinality({d \in FreeColumns(m) : d <= c})

\* C15: _kernel returns one vector per free column, in ascending free-column
\* order: vector j is 1 at the j-th free column and 0 at every other one.
KernelVectorsFollowFreeColumns ==
    pc = "kernel" =>
        /\ Len(nullspace) = Cardinality(FreeColumns(rref_binary_matrix_red))
        /\ \A j \in 1..Len(nullspace) : \A c \in FreeColumns(rref_binary_matrix_red) :
               nullspace[j][c] = IF FreeIndex(rref_binary_matrix_red, c) = j THEN 1 ELSE 0

\* C15 witness: a kernel of two or more vectors whose free columns have a
\* pivot column between them.
KernelWithSeparatedFreeColumns ==
    /\ pc = "kernel"
    /\ Len(nullspace) >= 2
    /\ \E a, b \in FreeColumns(rref_binary_matrix_red) :
           \E p \in PivotSet(rref_binary_matrix_red) : a < p /\ p < b

-----------------------------------------------------------------------------
(* Properties of the whole pipeline *)

FullRank ==
    /\ pc # "start"
    /\ Len(binary_matrix) >= 2 * num_qubits
    /\ Rank(binary_matrix) = 2 * num_qubits

\* C16: for a binary matrix of rank 2N the pipeline raises no error, runs to
\* its end and yields no generator and no Pauli-X operator.
FullRankYieldsNoSymmetries ==
    FullRank =>
        /\ pc # "IndexError"
        /\ pc # "done" => ENABLED Next
        /\ AfterKernel => nullspace = <<>>
        /\ pc \in {"taus", "done"} => generators = <<>>
        /\ pc = "done" => pauli_x = <<>>

\* C16 witness: the pipeline ended for a full-rank matrix whose rows the
\* reducer had to swap.
FullRankPipelineEnded ==
    /\ pc = "done"
    /\ FullRank
    /\ binary_matrix[1][1] = 0


-----------------------------------------------------------------------------
(* The example of the docstrings: three terms on four qubits *)

\* Line 39: _binary_matrix(terms, 4).
ExampleQubits == 4

\* Lines 36-38: Z0 X1, Z0 Y2, X0 Y3.
ExampleHamiltonian ==
    << [name |-> <<"PauliZ", "PauliX">>, wires |-> <<0, 1>>],
       [name |-> <<"PauliZ", "PauliY">>, wires |-> <<0, 2>>],
       [name |-> <<"PauliX", "PauliY">>, wires |-> <<0, 3>>] >>

\* Hamiltonians of the example's length made of the example's terms, in any
\* order and with repetitions.
InitExample ==
    /\ pc = "start"
    /\ num_qubits = ExampleQubits
    /\ terms \in [1..Len(ExampleHamiltonian) ->
                     {ExampleHamiltonian[k] : k \in 1..Len(ExampleHamiltonian)}]
    /\ binary_matrix = Unset
    /\ rref_binary_matrix = Unset
    /\ rref_again = Unset
    /\ rref_binary_matrix_red = Unset
    /\ nullspace = Unset
    /\ generators = Unset
    /\ pauli_x = Unset

\* No row of such a Hamiltonian is zero, so line 269 cannot raise.
NextExample ==
    \/ BinaryMatrix
    \/ ReducedRowEchelon
    \/ RemoveZeroRows
    \/ Kernel
    \/ GenerateTaus
    \/ GeneratePaulis

SpecExample == InitExample /\ [][NextExample]_vars

\* A generator with coefficient 1 over the operator of a word given by its
\* factor names and wires.
Generator(name, wires) == [coeffs |-> <<1>>, ops |-> <<[name |-> name, wires |-> wires]>>]

\* C17: the terms Z0 X1, Z0 Y2, X0 Y3 on 4 qubits give the binary matrix, the
\* reduced matrix, the kernel and the generators X1, Z0 X2 X3, X0 Z1 X2, Y2,
\* X2 Y3 (in this order) printed in the docstrings.
ExampleMatchesDocstrings ==
    (num_qubits = ExampleQubits /\ terms = ExampleHamiltonian) =>
        /\ pc # "start" =>
               binary_matrix = << <<1, 0, 0, 0, 0, 1, 0, 0>>,
                                  <<1, 0, 1, 0, 0, 0, 1, 0>>,
                                  <<0, 0, 0, 1, 1, 0, 0, 1>> >>
        /\ pc \notin {"start", "encoded"} =>
               rref_binary_matrix = << <<1, 0, 0, 0, 0, 1, 0, 0>>,
                                       <<0, 0, 1, 1, 1, 1, 1, 1>>,
                                       <<0, 0, 0, 1, 1, 0, 0, 1>> >>
        /\ pc \notin {"start", "encoded", "reduced"} =>
               rref_binary_matrix_red = rref_binary_matrix
        /\ AfterKernel =>
               nullspace = << <<0, 1, 0, 0, 0, 0, 0, 0>>,
                              <<0, 0, 1, 1, 1, 0, 0, 0>>,
                              <<1, 0, 1, 0, 0, 1, 0, 0>>,
                              <<0, 0, 1, 0, 0, 0, 1, 0>>,
                              <<0, 0, 1, 1, 0, 0, 0, 1>> >>
        /\ pc \in {"taus", "done"} =>
               generators = << Generator("PauliX", <<1>>),
                               Generator(<<"PauliZ", "PauliX", "PauliX">>, <<0, 2, 3>>),
                               Generator(<<"PauliX", "PauliZ", "PauliX">>, <<0, 1, 2>>),
                               Generator("PauliY", <<2>>),
                               Generator(<<"PauliX", "PauliY">>, <<2, 3>>) >>

\* C17 witness: generate_taus has returned for the example's Hamiltonian.
ExampleGeneratorsReturned ==
    /\ pc = "taus"
    /\ num_qubits = ExampleQubits
    /\ terms = ExampleHamiltonian
    /\ Len(generators) = Len(nullspace)
    /\ Len(nullspace) = 2 * ExampleQubits - Len(ExampleHamiltonian)


-----------------------------------------------------------------------------
(* Row space along the diagonal steps of _reduced_row_echelon *)

\* The encoder followed by the reducer.
NextReduce ==
    \/ BinaryMatrix
    \/ ReducedRowEchelon

SpecReduce == Init /\ [][NextReduce]_vars

\* The matrix before the diagonal step k + 1 (after k steps).
BeforeStep(m, k) == ReduceFrom(m, 1, k)

\* The step at (k, k) with whole rows added instead of suffixes: after the
\* swap, row k is added to every other row that has a 1 in column k.
WholeRowStep(m, k) ==
    LET sw == SwapRows(m, ArgmaxRow(m, k, k), k)
    IN [r \in 1..NumRows(m) |->
           [c \in 1..Len(m[r]) |->
               IF r # k /\ sw[r][k] = 1 THEN Xor(sw[r][c], sw[k][c]) ELSE sw[r][c]]]

\* The row space of the first n rows of m, as a set of 0/1 vectors.
RECURSIVE RowSpaceOfFirst(_, _)
RowSpaceOfFirst(m, n) ==
    IF n = 0 THEN {[c \in 1..Len(m[1]) |-> 0]}
    ELSE LET S == RowSpaceOfFirst(m, n - 1)
         IN S \cup {[c \in 1..Len(m[1]) |-> Xor(v[c], m[n][c])] : v \in S}

RowSpace(m) == RowSpaceOfFirst(m, NumRows(m))

\* The rows of m, each as the set of the positions of its 1s.
RowSupports(m) == {{c \in 1..Len(m[r]) : m[r][c] = 1} : r \in 1..NumRows(m)}

\* The nullspace of m over GF(2), each vector as the set of the positions of
\* its 1s: those that meet every row in an even number of positions.
NullspaceOf(m) ==
    LET rows == RowSupports(m)
    IN {S \in SUBSET (1..Len(m[1])) : \A R \in rows : Cardinality(S \cap R) % 2 = 0}

\* The steps k + 1 .. last taken from the matrix mk that k steps have produced
\* end in the matrix out, and at each of them the rows at or below the
\* diagonal are zero left of it, the step adds whole rows, and its result has
\* the row space rs.
RECURSIVE StepsKeepRowSpace(_, _, _, _, _)
StepsKeepRowSpace(mk, k, last, rs, out) ==
    IF k >= last THEN mk = out
    ELSE LET next == ReduceStep(mk, k + 1)
         IN /\ next = WholeRowStep(mk, k + 1)
            /\ \A r \in (k + 1)..NumRows(mk) : \A c \in 1..k : mk[r][c] = 0
            /\ RowSpace(next) = rs
            /\ StepsKeepRowSpace(next, k + 1, last, rs, out)

\* C18: before each diagonal step every row at or below the diagonal is zero
\* left of it, so the step adds whole rows and keeps the row space, also when
\* it finds no pivot; the output has the shape, 0/1 entries, row space and
\* nullspace of the input, and the input matrix is left as it was.
ReducerPreservesRowSpace ==
    pc = "reduced" =>
        LET m == binary_matrix
            last == Min(NumRows(m), Len(m[1]))
        IN /\ m = _binary_matrix(terms, num_qubits)
           /\ StepsKeepRowSpace(m, 0, last, RowSpace(m), rref_binary_matrix)
           /\ NumRows(rref_binary_matrix) = NumRows(m)
           /\ \A r \in 1..NumRows(m) :
                  /\ Len(rref_binary_matrix[r]) = Len(m[r])
                  /\ \A c \in 1..Len(m[r]) : rref_binary_matrix[r][c] \in Bit
           /\ NullspaceOf(rref_binary_matrix) = NullspaceOf(m)

\* C18 witness: the reducer has returned after a step that found no pivot and
\* still changed a row above the diagonal.
ReducedThroughPivotlessStep ==
    /\ pc = "reduced"
    /\ \E k \in 1..Min(NumRows(binary_matrix), Len(binary_matrix[1])) :
           LET mk == BeforeStep(binary_matrix, k - 1)
           IN /\ \A r \in k..NumRows(mk) : mk[r][k] = 0
              /\ \E r \in 1..(k - 1) : ReduceStep(mk, k)[r] # mk[r]

=============================================================================
